---- MODULE Spec2Model ----
(***************************************************************************)
(* Request-admission layer of the time-block calendar service              *)
(* (src/main.py): the API-key gate, the JWT session check, the per-user    *)
(* daily rate limiter and the event handlers that sit behind them.         *)
(*                                                                         *)
(* Time is counted in ticks of the UTC clock; one day is TicksPerDay       *)
(* ticks.  A call of a handler is short against one tick, so every         *)
(* datetime.now()/utcnow() read of one call sees the same tick.            *)
(***************************************************************************)
EXTENDS Integers, Sequences, FiniteSets, TLC

\* ---------------------------------------------------------------- bounds
TicksPerDay == 4
MaxClock == 5
MaxN == 2
MaxOver == 1
MaxIssued == 1

\* ------------------------------------------------------- program constants
\* rate_limiter.limit(user_id, 20) in create_event
CREATE_EVENT_MAX_REQUESTS == 20

\* os.getenv("SECRET_KEY"), os.getenv("API_KEY"), ALGORITHM
SECRET_KEY == "server-secret"
API_KEY == "service-key"
ALGORITHM == "HS256"

\* ids that get_user_details can return, and its None
Users == {1, 2}
None == 0

\* login identifiers; the last one passes validate_credentials but has no
\* row left for get_user_details
Emails == {"ann@x", "bob@x", "gone@x"}
Passwords == {"right", "wrong"}

\* local time minus UTC of the server, in ticks
TzOffsets == {-2, 0, 1}

\* connections a request can arrive on, and event ids a caller can name
ReqIds == {"r1", "r2"}
EventIds == {7, 8}

VARIABLES
    clock,          \* UTC time in ticks
    tz,             \* the server's local time zone offset
    requests,       \* RateLimiter.requests: user_id -> [count, time]
    max_requests,   \* the max_requests argument the limiter is driven with
    issued,         \* the tokens login has returned
    call,           \* the last operation executed and what it returned
    win,            \* per user: the fixed window the calls so far fall in
    failures,       \* every (raise site, exception) get_current_user produced
    inflight,       \* the requests being served: connection -> request
    db,             \* the events table
    configured_key  \* what os.getenv("API_KEY") returned: <<key>>, or << >> for None

vars == <<clock, tz, requests, max_requests, issued, call, win, failures, inflight, db,
          configured_key>>

\* ------------------------------------------------------------ RateLimiter

\* time_diff.days >= 1, with time_diff = now - requests[user_id]["time"]
WindowElapsed(now, start) == (now - start) \div TicksPerDay >= 1

\* requests[user_id]["count"] > max_requests
OverBudgetInclusive(count, max) == count >= max
OverBudgetOffByOne(count, max) == count > max + 1
OverBudget(count, max) == count > max

\* the dict entry written by lines 45 and 49
FreshRecord(now) == [count |-> 1, time |-> now]

\* requests with requests[user_id] = rec
StoreAlone(reqs, user_id, rec) == [u \in {user_id} |-> rec]
Store(reqs, user_id, rec) ==
    [u \in (DOMAIN reqs) \cup {user_id} |-> IF u = user_id THEN rec ELSE reqs[u]]

\* lines 42-45: count the call, or create the record
Counted(reqs, user_id, now) ==
    IF user_id \in DOMAIN reqs
    THEN Store(reqs, user_id, [reqs[user_id] EXCEPT !.count = @ + 1])
    ELSE Store(reqs, user_id, FreshRecord(now))

\* RateLimiter.limit: the dict it leaves and the value it returns
limitNoReset(reqs, user_id, max, now) ==
    LET counted == Counted(reqs, user_id, now)
    IN  IF OverBudget(counted[user_id].count, max)
        THEN [requests |-> counted, result |-> FALSE]
        ELSE [requests |-> counted, result |-> TRUE]
limitAdmitsNew(reqs, user_id, max, now) ==
    LET counted == Counted(reqs, user_id, now)
    IN  IF user_id \notin DOMAIN reqs
        THEN [requests |-> counted, result |-> TRUE]
        ELSE IF WindowElapsed(now, counted[user_id].time)
        THEN [requests |-> Store(counted, user_id, FreshRecord(now)), result |-> TRUE]
        ELSE IF OverBudget(counted[user_id].count, max)
             THEN [requests |-> counted, result |-> FALSE]
             ELSE [requests |-> counted, result |-> TRUE]
limitRejectRestarts(reqs, user_id, max, now) ==
    LET counted == Counted(reqs, user_id, now)
    IN  IF WindowElapsed(now, counted[user_id].time)
        THEN [requests |-> Store(counted, user_id, FreshRecord(now)), result |-> TRUE]
        ELSE IF OverBudget(counted[user_id].count, max)
             THEN [requests |-> Store(counted, user_id, FreshRecord(now)), result |-> FALSE]
             ELSE [requests |-> counted, result |-> TRUE]
limit(reqs, user_id, max, now) ==
    LET counted == Counted(reqs, user_id, now)
    IN  IF WindowElapsed(now, counted[user_id].time)
        THEN [requests |-> Store(counted, user_id, FreshRecord(now)), result |-> TRUE]
        ELSE IF OverBudget(counted[user_id].count, max)
             THEN [requests |-> counted, result |-> FALSE]
             ELSE [requests |-> counted, result |-> TRUE]

\* ------------------------------------------------------- Credential Gate
\* verify_api_key: the exception it raises, or none
NoException == [status |-> 0, detail |-> "", headers |-> ""]
HTTPException(status_code, detail, headers) ==
    [status |-> status_code, detail |-> detail, headers |-> headers]

\* not (x_api_key != API_KEY): the header is a str, and a str never equals
\* the None of an unset API_KEY
ApiKeyMatchesOrUnset(x_api_key) ==
    configured_key = << >> \/ configured_key = <<x_api_key>>
ApiKeyMatches(x_api_key) == configured_key = <<x_api_key>>

verify_api_keyNeverRaises(x_api_key) == NoException
verify_api_key(x_api_key) ==
    IF ~ApiKeyMatches(x_api_key)
    THEN HTTPException(401, "Invalid API Key", "")
    ELSE NoException

\* ----------------------------------------------------- Session Token Codec
\* The collaborators of user.py, as main.py uses them.
get_user_details(email) ==
    CASE email = "ann@x" -> 1
      [] email = "bob@x" -> 2
      [] OTHER -> None

validate_credentials(email, password) == email \in Emails /\ password = "right"

\* A serialized JWT: the claims, the header's alg, and the signature segment:
\* the signature as the term it was computed from (key, alg and the claims it
\* covers), and the bits of the segment's last base64url character that
\* encode no signature byte, which an encoder writes as 0.
Mac(key, alg, user, exp) == <<key, alg, user, exp>>
Sign(key, alg, user, exp) ==
    [user |-> user, exp |-> exp, alg |-> alg, mac |-> Mac(key, alg, user, exp),
     spare |-> 0]

\* base64url decoding of the signature segment inside jwt.decode: the
\* signature bytes; the spare bits are dropped
DecodedSignature(token) == token.mac

\* what jwt.decode reads of a serialized token
Decoded(token) ==
    [user |-> token.user, exp |-> token.exp, alg |-> token.alg,
     signature |-> DecodedSignature(token)]

\* datetime -> "exp" claim (jose: timegm(utctimetuple()) of the naive UTC
\* datetime) and "exp" claim -> datetime.fromtimestamp (naive LOCAL time)
ToTimestamp(utc) == utc
FromTimestamp(ts, offset) == ts + offset

\* timedelta(hours=24) of login
TokenLifetime == TicksPerDay

\* jwt.encode({'user': email, 'exp': utcnow() + 24h}, SECRET_KEY, ALGORITHM)
IssueToken(email, utcnow) ==
    Sign(SECRET_KEY, ALGORITHM, email, ToTimestamp(utcnow + TokenLifetime))

\* the signature check of jwt.decode(token, key, algorithms=[...])
SignatureVerifiesAnyAlg(token, key, algorithms) ==
    DecodedSignature(token) = Mac(key, token.alg, token.user, token.exp)
SignatureVerifies(token, key, algorithms) ==
    /\ token.alg \in algorithms
    /\ DecodedSignature(token) = Mac(key, token.alg, token.user, token.exp)

\* jose's own validation of the exp claim inside jwt.decode
JoseExpired(token, utcnow) == token.exp # None /\ token.exp < utcnow

\* jwt.decode raises a JWTError
JWTError(token, key, algorithms, utcnow) ==
    \/ ~SignatureVerifies(token, key, algorithms)
    \/ JoseExpired(token, utcnow)

\* line 97: utcnow() > datetime.fromtimestamp(expiration)
ExpirationPassed(expiration, utcnow, offset) ==
    utcnow > FromTimestamp(expiration, offset)

credentials_exceptionNoChallenge ==
    HTTPException(401, "Could not validate credentials", "")
credentials_exception ==
    HTTPException(401, "Could not validate credentials", "WWW-Authenticate: Bearer")

Raised(site) == [ok |-> FALSE, user |-> None, raised |-> credentials_exception, site |-> site]

\* get_current_user: the user it returns or the exception it raises, with
\* the raise statement that produced it
get_current_user(token, utcnow, offset) ==
    IF JWTError(token, SECRET_KEY, {ALGORITHM}, utcnow)
    THEN Raised("except JWTError")
    ELSE IF token.user = ""
    THEN Raised("email is None")
    ELSE IF get_user_details(token.user) = None
    THEN Raised("user is None")
    ELSE IF token.exp = None \/ ExpirationPassed(token.exp, utcnow, offset)
    THEN Raised("expiration")
    ELSE [ok |-> TRUE, user |-> get_user_details(token.user),
          raised |-> NoException, site |-> "return user"]

\* login behind its verify_api_key dependency
loginAnyPassword(email, password, x_api_key, utcnow) ==
    IF verify_api_key(x_api_key) # NoException
    THEN [token |-> << >>, raised |-> verify_api_key(x_api_key)]
    ELSE [token |-> <<IssueToken(email, utcnow)>>, raised |-> NoException]
login(email, password, x_api_key, utcnow) ==
    IF verify_api_key(x_api_key) # NoException
    THEN [token |-> << >>, raised |-> verify_api_key(x_api_key)]
    ELSE IF validate_credentials(email, password)
    THEN [token |-> <<IssueToken(email, utcnow)>>, raised |-> NoException]
    ELSE [token |-> << >>,
          raised |-> HTTPException(401, "Authentication failed. Please try again.", "")]

\* What a caller without the signing key can present: tokens it was given,
\* those tokens with a claim, the header or the last character of the
\* signature segment changed, tokens signed with a key of its own, a token
\* signed under another algorithm, and garbage.
Malformed == [user |-> "", exp |-> None, alg |-> "", mac |-> << >>, spare |-> 0]
Presentable(known, utcnow) ==
    known
    \cup {[t EXCEPT !.user = e] : t \in known, e \in Emails}
    \cup {[t EXCEPT !.exp = t.exp + TokenLifetime] : t \in known}
    \cup {[t EXCEPT !.alg = "none"] : t \in known}
    \cup {[t EXCEPT !.spare = 1] : t \in known}
    \cup {Sign("other-key", a, e, utcnow + TokenLifetime) :
            a \in {ALGORITHM, "HS512"}, e \in {"ann@x"}}
    \cup {Sign(SECRET_KEY, "HS512", "ann@x", utcnow + TokenLifetime)}
    \cup {Malformed}

\* ------------------------------------------------------------- handlers
\* the events table of calendar_app.db: id -> [user_id, cols]
Columns ==
    <<"event_name", "start_datetime", "end_datetime",
      "event_date", "event_flexibility", "event_importance">>

\* datetime.strftime("%Y-%m-%d %H:%M:%S"): the date and the time of day,
\* without the microseconds and the UTC offset the datetime carries
Strftime(dt) == <<dt.date, dt.time>>

\* lines 145-151: event.dict(exclude_unset=True), then the two datetime
\* fields formatted; a dict, as the sequence of its (key, value) items
IsDatetimeField(key) == key \in {"start_datetime", "end_datetime"}
Normalized(event) ==
    [i \in DOMAIN event |->
        IF IsDatetimeField(event[i][1])
        THEN <<event[i][1], Strftime(event[i][2])>>
        ELSE event[i]]

\* lines 157-158: the columns of the SET clause and the bound values
SetClause(update_data) == [i \in DOMAIN update_data |-> update_data[i][1]]
BoundValuesOwnerFirst(update_data, id, user_id) ==
    [i \in DOMAIN update_data |-> update_data[i][2]] \o <<user_id, id>>
BoundValues(update_data, id, user_id) ==
    [i \in DOMAIN update_data |-> update_data[i][2]] \o <<id, user_id>>

\* "UPDATE events SET <set_clause> WHERE id = ? AND user_id = ?": the
\* placeholders take the values in order, the last two in the WHERE clause
WhereMatchesIdOnly(table, rowid, id, user_id) == rowid = id
WhereMatches(table, rowid, id, user_id) ==
    rowid = id /\ table[rowid].user_id = user_id

Matched(table, id, user_id) ==
    {rowid \in DOMAIN table : WhereMatches(table, rowid, id, user_id)}

ExecuteUpdate(table, set_clause, values) ==
    LET k == Len(set_clause)
        hit == Matched(table, values[k + 1], values[k + 2])
        Written(cols) ==
            [c \in DOMAIN cols |->
                IF \E i \in 1..k : set_clause[i] = c
                THEN values[CHOOSE i \in 1..k :
                        set_clause[i] = c /\ \A j \in (i + 1)..k : set_clause[j] # c]
                ELSE cols[c]]
    IN  [table |-> [rowid \in DOMAIN table |->
                      IF rowid \in hit
                      THEN [table[rowid] EXCEPT !.cols = Written(@)]
                      ELSE table[rowid]],
         rowcount |-> Cardinality(hit)]

NoStatement == [set_clause |-> << >>, values |-> << >>]
NotOwnedMessage ==
    "No update performed. Check if the event exists and belongs to the user."

\* update_event: the table it leaves, what it returns and what it executed
update_eventNoEarlyReturn(table, id, event, user_id) ==
    LET update_data == Normalized(event)
        set_clause == SetClause(update_data)
        values == BoundValues(update_data, id, user_id)
        done == ExecuteUpdate(table, set_clause, values)
    IN  [table |-> done.table,
         body |-> IF done.rowcount = 0 THEN NotOwnedMessage ELSE "null",
         executed |-> [set_clause |-> set_clause, values |-> values]]
update_event(table, id, event, user_id) ==
    LET update_data == Normalized(event)
    IN  IF update_data = << >>
        THEN [table |-> table, body |-> "null", executed |-> NoStatement]
        ELSE LET set_clause == SetClause(update_data)
                 values == BoundValues(update_data, id, user_id)
                 done == ExecuteUpdate(table, set_clause, values)
             IN  [table |-> done.table,
                  body |-> IF done.rowcount = 0 THEN NotOwnedMessage ELSE "null",
                  executed |-> [set_clause |-> set_clause, values |-> values]]

\* get_events: "SELECT * FROM events WHERE user_id = ?"
get_events(table, user_id) ==
    {<<rowid, table[rowid]>> : rowid \in {i \in DOMAIN table : table[i].user_id = user_id}}

\* delete_event: "DELETE FROM events WHERE id = ? AND user_id = ?"
delete_eventByIdOnly(table, id, user_id) ==
    [table |-> [rowid \in (DOMAIN table) \ {id} |-> table[rowid]],
     body |-> "Event deleted successfully."]
delete_event(table, id, user_id) ==
    [table |-> [rowid \in (DOMAIN table) \ Matched(table, id, user_id) |-> table[rowid]],
     body |-> "Event deleted successfully."]

\* create_event: the limiter's dict it leaves, its response, and whether
\* pipeline() was called; extracted is what pipeline() returns when called
create_event(reqs, user_id, now, extracted) ==
    LET r == limit(reqs, user_id, CREATE_EVENT_MAX_REQUESTS, now)
    IN  IF ~r.result
        THEN [requests |-> r.requests, admitted |-> FALSE, status |-> 429,
              body |-> "Rate limit exceeded", pipeline |-> FALSE]
        ELSE [requests |-> r.requests, admitted |-> TRUE, status |-> 200,
              body |-> IF extracted = "None" THEN "Event creation failed" ELSE extracted,
              pipeline |-> TRUE]

\* ------------------------------------------------- observation of windows
\* The fixed window of a user as an observer outside the limiter counts it:
\* it opens at the user's first call and at the first call a full day or
\* more after the last opening; gen tells the first window from later ones.
NoWindow == [open |-> FALSE, start |-> 0, calls |-> 0, admitted |-> 0, gen |-> 0]

Observe(w, now, admittedCall) ==
    LET one == IF admittedCall THEN 1 ELSE 0
    IN  IF ~w.open
        THEN [open |-> TRUE, start |-> now, calls |-> 1, admitted |-> one, gen |-> 0]
        ELSE IF now - w.start >= TicksPerDay
             THEN [open |-> TRUE, start |-> now, calls |-> 1, admitted |-> one, gen |-> 1]
             ELSE [w EXCEPT !.calls = @ + 1, !.admitted = @ + one]

NoCall == [op |-> "none"]

\* a connection with no request on it
Idle ==
    [pc |-> "idle", op |-> "", x_api_key |-> "", token |-> Malformed, id |-> 0,
     event |-> << >>, user_id |-> None, trace |-> << >>, rejected |-> "",
     status |-> 0, body |-> "", headers |-> "", rows |-> {}]

\* ------------------------------------------------------------- the clock
Tick ==
    /\ clock < MaxClock
    /\ clock' = clock + 1
    /\ UNCHANGED <<tz, requests, max_requests, issued, call, win, failures, inflight, db, configured_key>>

\* --------------------------------------------- the limiter driven directly
\* one call rate_limiter.limit(user_id, max_requests)
LimitCall(user_id) ==
    /\ user_id \in DOMAIN requests => requests[user_id].count <= max_requests + MaxOver
    /\ LET r == limit(requests, user_id, max_requests, clock)
       IN  /\ requests' = r.requests
           /\ call' = [op |-> "limit", user |-> user_id, max |-> max_requests,
                       now |-> clock, had |-> user_id \in DOMAIN requests,
                       pre |-> IF user_id \in DOMAIN requests
                               THEN requests[user_id] ELSE [count |-> 0, time |-> clock],
                       post |-> r.requests[user_id], result |-> r.result]
           /\ win' = [win EXCEPT ![user_id] = Observe(@, clock, r.result)]
    /\ UNCHANGED <<clock, tz, max_requests, issued, failures, inflight, db, configured_key>>

InitLimiter ==
    /\ clock = 0
    /\ tz = 0
    /\ requests = << >>
    /\ max_requests \in 0..MaxN
    /\ issued = {}
    /\ call = NoCall
    /\ win = [u \in Users |-> NoWindow]
    /\ failures = {}
    /\ inflight = [r \in ReqIds |-> Idle]
    /\ db = << >>
    /\ configured_key = <<API_KEY>>

NextLimiter ==
    \/ Tick
    \/ \E u \in Users : LimitCall(u)

SpecLimiter == InitLimiter /\ [][NextLimiter]_vars

\* ----------------------------------------------------- protected requests
\* A protected route declares user_id = Depends(get_current_user) before
\* api_key = Depends(verify_api_key); the dependencies are solved in that
\* order and the handler body runs after both.
Ops == {"create_event", "get_events", "update_event", "delete_event"}

\* the calls get_current_user made before it returned or raised at site
Steps(site) ==
    IF site \in {"except JWTError", "email is None"}
    THEN <<"jwt.decode">>
    ELSE <<"jwt.decode", "get_user_details">>

Arrive(r, op, x_api_key, token, id, event) ==
    /\ inflight[r].pc = "idle"
    /\ (op = "create_event" /\ get_user_details(token.user) \in DOMAIN requests)
         => requests[get_user_details(token.user)].count
                < CREATE_EVENT_MAX_REQUESTS + MaxOver
    /\ inflight' = [inflight EXCEPT ![r] =
            [Idle EXCEPT !.pc = "get_current_user", !.op = op,
                         !.x_api_key = x_api_key, !.token = token,
                         !.id = id, !.event = event]]
    /\ UNCHANGED <<clock, tz, requests, max_requests, issued, call, win, failures, db,
                 configured_key>>

Rejected(req, by, exception) ==
    [req EXCEPT !.pc = "done", !.rejected = by, !.status = exception.status,
                !.body = exception.detail, !.headers = exception.headers]

\* Depends(get_current_user)
GetCurrentUser(r) ==
    /\ inflight[r].pc = "get_current_user"
    /\ LET req == inflight[r]
           res == get_current_user(req.token, clock, tz)
           ran == [req EXCEPT !.trace = @ \o Steps(res.site)]
       IN  inflight' = [inflight EXCEPT ![r] =
                IF res.ok
                THEN [ran EXCEPT !.pc = "verify_api_key", !.user_id = res.user]
                ELSE Rejected(ran, "get_current_user", res.raised)]
    /\ UNCHANGED <<clock, tz, requests, max_requests, issued, call, win, failures, db,
                 configured_key>>

\* Depends(verify_api_key)
VerifyApiKey(r) ==
    /\ inflight[r].pc = "verify_api_key"
    /\ LET req == inflight[r]
           exception == verify_api_key(req.x_api_key)
           ran == [req EXCEPT !.trace = Append(@, "verify_api_key")]
       IN  inflight' = [inflight EXCEPT ![r] =
                IF exception = NoException
                THEN [ran EXCEPT !.pc = "handler"]
                ELSE Rejected(ran, "verify_api_key", exception)]
    /\ UNCHANGED <<clock, tz, requests, max_requests, issued, call, win, failures, db,
                 configured_key>>

\* the body of create_event; extracted is what pipeline() returns
CreateEvent(r, extracted) ==
    /\ inflight[r].pc = "handler"
    /\ inflight[r].op = "create_event"
    /\ LET req == inflight[r]
           res == create_event(requests, req.user_id, clock, extracted)
       IN  /\ requests' = res.requests
           /\ win' = [win EXCEPT ![req.user_id] = Observe(@, clock, res.admitted)]
           /\ inflight' = [inflight EXCEPT ![r] =
                [req EXCEPT !.pc = "done",
                            !.trace = @ \o <<"rate_limiter.limit">>
                                        \o (IF res.pipeline THEN <<"pipeline">> ELSE << >>),
                            !.rejected = IF res.admitted THEN "" ELSE "rate_limiter",
                            !.status = res.status, !.body = res.body]]
    /\ UNCHANGED <<clock, tz, max_requests, issued, call, failures, db, configured_key>>

\* the body of get_events
GetEvents(r) ==
    /\ inflight[r].pc = "handler"
    /\ inflight[r].op = "get_events"
    /\ inflight' = [inflight EXCEPT ![r] =
            [@ EXCEPT !.pc = "done", !.trace = Append(@, "cursor.execute"),
                      !.status = 200, !.rows = get_events(db, inflight[r].user_id)]]
    /\ UNCHANGED <<clock, tz, requests, max_requests, issued, call, win, failures, db,
                 configured_key>>

\* the body of update_event
UpdateEvent(r) ==
    /\ inflight[r].pc = "handler"
    /\ inflight[r].op = "update_event"
    /\ LET req == inflight[r]
           res == update_event(db, req.id, req.event, req.user_id)
       IN  /\ db' = res.table
           /\ inflight' = [inflight EXCEPT ![r] =
                [req EXCEPT !.pc = "done",
                            !.trace = IF res.executed = NoStatement THEN @
                                      ELSE Append(@, "cursor.execute"),
                            !.status = 200, !.body = res.body]]
    /\ UNCHANGED <<clock, tz, requests, max_requests, issued, call, win, failures, configured_key>>

\* the body of delete_event
DeleteEvent(r) ==
    /\ inflight[r].pc = "handler"
    /\ inflight[r].op = "delete_event"
    /\ LET req == inflight[r]
           res == delete_event(db, req.id, req.user_id)
       IN  /\ db' = res.table
           /\ inflight' = [inflight EXCEPT ![r] =
                [req EXCEPT !.pc = "done", !.trace = Append(@, "cursor.execute"),
                            !.status = 200, !.body = res.body]]
    /\ UNCHANGED <<clock, tz, requests, max_requests, issued, call, win, failures, configured_key>>

\* the response is sent and the connection is free again
Respond(r) ==
    /\ inflight[r].pc = "done"
    /\ inflight' = [inflight EXCEPT ![r] = Idle]
    /\ UNCHANGED <<clock, tz, requests, max_requests, issued, call, win, failures, db,
                 configured_key>>

\* a datetime as pydantic parses it, and a request body with every field
\* of Event
Noon == [date |-> "2024-05-01", time |-> "12:00:00", microsecond |-> 500, utcoffset |-> "+02:00"]
FullEvent ==
    << <<"event_name", "standup">>, <<"start_datetime", Noon>>,
       <<"end_datetime", Noon>>, <<"event_date", "2024-05-01">>,
       <<"event_flexibility", 1>>, <<"event_importance", 2>> >>

\* the sessions open when the requests start: every account logged in at 0
Sessions == {IssueToken(e, 0) : e \in Emails}

\* what callers send: a session token, ann's token rewritten to bob, garbage
Sent(known) ==
    known \cup {[t EXCEPT !.user = "bob@x"] : t \in {k \in known : k.user = "ann@x"}}
          \cup {Malformed}

\* create_event is called on ann's session or without a good token
SentToCreate(known) == Sent({k \in known : k.user # "bob@x"})

Init ==
    /\ clock = 0
    /\ tz \in TzOffsets
    /\ requests = << >>
    /\ max_requests = CREATE_EVENT_MAX_REQUESTS
    /\ issued = Sessions
    /\ call = NoCall
    /\ win = [u \in Users |-> NoWindow]
    /\ failures = {}
    /\ inflight = [r \in ReqIds |-> Idle]
    /\ db = << >>
    /\ configured_key \in {<<API_KEY>>, << >>}

Serve(r) ==
    \/ GetCurrentUser(r)
    \/ VerifyApiKey(r)
    \/ \E x \in {"None", "event"} : CreateEvent(r, x)
    \/ Respond(r)

\* x-api-key headers callers send: the key of .env, its upper case, a guess
PresentedKeys == {API_KEY, "SERVICE-KEY", "guess"}

Next ==
    \/ Tick
    \/ \E k \in PresentedKeys :
         \/ \E t \in SentToCreate(issued) : Arrive("r1", "create_event", k, t, 0, << >>)
         \/ \E t \in Sent(issued) : Arrive("r1", "get_events", k, t, 0, << >>)
         \/ \E t \in Sent(issued), id \in EventIds :
               \/ Arrive("r1", "update_event", k, t, id, FullEvent)
               \/ Arrive("r1", "delete_event", k, t, id, << >>)
    \/ Serve("r1")
    \/ GetEvents("r1")
    \/ UpdateEvent("r1")
    \/ DeleteEvent("r1")

Spec == Init /\ [][Next]_vars

\* two create_event requests in flight at once
NextConcurrent ==
    \/ Tick
    \/ \E r \in ReqIds, k \in {API_KEY, "guess"},
          t \in {IssueToken("ann@x", 0), Malformed} :
          Arrive(r, "create_event", k, t, 0, << >>)
    \/ \E r \in ReqIds : Serve(r)

SpecConcurrent == Init /\ [][NextConcurrent]_vars

\* ------------------------------------------------ the codec driven directly
\* POST /login
Login(email, password, x_api_key) ==
    /\ Cardinality(issued) < MaxIssued
    /\ LET r == login(email, password, x_api_key, clock)
       IN  /\ issued' = issued \cup {r.token[i] : i \in DOMAIN r.token}
           /\ call' = [op |-> "login", email |-> email, password |-> password,
                       key |-> x_api_key, now |-> clock,
                       token |-> r.token, raised |-> r.raised]
    /\ UNCHANGED <<clock, tz, requests, max_requests, win, failures, inflight, db, configured_key>>

\* one call of the get_current_user dependency
Verify(token) ==
    /\ LET r == get_current_user(token, clock, tz)
       IN  /\ call' = [op |-> "verify", token |-> token, now |-> clock,
                       ok |-> r.ok, user |-> r.user, raised |-> r.raised,
                       site |-> r.site]
           /\ failures' = IF r.ok THEN failures
                          ELSE failures \cup {[site |-> r.site, raised |-> r.raised]}
    /\ UNCHANGED <<clock, tz, requests, max_requests, issued, win, inflight, db, configured_key>>

InitCodec ==
    /\ clock = 0
    /\ tz \in TzOffsets
    /\ requests = << >>
    /\ max_requests = CREATE_EVENT_MAX_REQUESTS
    /\ issued = {}
    /\ call = NoCall
    /\ win = [u \in Users |-> NoWindow]
    /\ failures = {}
    /\ inflight = [r \in ReqIds |-> Idle]
    /\ db = << >>
    /\ configured_key = <<API_KEY>>

NextCodec ==
    \/ Tick
    \/ \E e \in Emails, p \in Passwords, k \in {API_KEY, "guess"} : Login(e, p, k)
    \/ \E t \in Presentable(issued, clock) : Verify(t)

SpecCodec == InitCodec /\ [][NextCodec]_vars

\* ------------------------------------------- the handlers driven directly
\* rows as the pipeline stored them, and other bodies update_event can get
StoredCols ==
    [c \in {Columns[i] : i \in DOMAIN Columns} |->
        CASE c = "event_name" -> "planning"
          [] c \in {"start_datetime", "end_datetime"} -> <<"2024-04-30", "09:00:00">>
          [] c = "event_date" -> "2024-04-30"
          [] OTHER -> 0]
Tables ==
    {t \in [EventIds -> Users \cup {None}] : TRUE}
TableOf(owners) ==
    [rowid \in {i \in EventIds : owners[i] # None} |->
        [user_id |-> owners[rowid], cols |-> StoredCols]]
Bodies ==
    {FullEvent, << <<"event_name", "retro">> >>,
     << <<"end_datetime", Noon>>, <<"event_importance", 1>> >>, << >>}

\* update_event for an authenticated user_id
StoreUpdate(id, event, user_id) ==
    /\ LET res == update_event(db, id, event, user_id)
       IN  /\ db' = res.table
           /\ call' = [op |-> "update_event", id |-> id, event |-> event,
                       user_id |-> user_id, before |-> db, after |-> res.table,
                       body |-> res.body, executed |-> res.executed]
    /\ UNCHANGED <<clock, tz, requests, max_requests, issued, win, failures, inflight,
                 configured_key>>

\* delete_event for an authenticated user_id
StoreDelete(id, user_id) ==
    /\ LET res == delete_event(db, id, user_id)
       IN  /\ db' = res.table
           /\ call' = [op |-> "delete_event", id |-> id, user_id |-> user_id,
                       before |-> db, after |-> res.table, body |-> res.body]
    /\ UNCHANGED <<clock, tz, requests, max_requests, issued, win, failures, inflight,
                 configured_key>>

\* get_events for an authenticated user_id
StoreList(user_id) ==
    /\ call' = [op |-> "get_events", user_id |-> user_id, before |-> db,
                after |-> db, rows |-> get_events(db, user_id)]
    /\ UNCHANGED <<clock, tz, requests, max_requests, issued, win, failures, inflight, db, configured_key>>

InitStore ==
    /\ clock = 0
    /\ tz = 0
    /\ requests = << >>
    /\ max_requests = CREATE_EVENT_MAX_REQUESTS
    /\ issued = {}
    /\ call = NoCall
    /\ win = [u \in Users |-> NoWindow]
    /\ failures = {}
    /\ inflight = [r \in ReqIds |-> Idle]
    /\ db \in {TableOf(owners) : owners \in Tables}
    /\ configured_key = <<API_KEY>>

NextStore ==
    \/ \E id \in EventIds \cup {9}, e \in Bodies, u \in Users : StoreUpdate(id, e, u)
    \/ \E id \in EventIds \cup {9}, u \in Users : StoreDelete(id, u)
    \/ \E u \in Users : StoreList(u)

SpecStore == InitStore /\ [][NextStore]_vars

\* ------------------------------------------------------------------ claims

\* C2: starting from no record for a subject, the first N calls of
\* limit(S, N) inside the first window return True and call N+1 of that
\* window returns False.
C2_FirstNAdmitted ==
    (call.op = "limit" /\ win[call.user].gen = 0
        /\ win[call.user].calls <= call.max + 1)
    => (call.result <=> win[call.user].calls <= call.max)

\* C2 witness: call N+1 of the first window was made, N >= 1, and refused.
C2_Witness ==
    /\ call.op = "limit"
    /\ call.max >= 1
    /\ win[call.user].gen = 0
    /\ win[call.user].calls = call.max + 1
    /\ ~call.result

\* C3: a call made a full day or more after the recorded window start
\* returns True whatever the count was and leaves {count: 1, time: now}.
C3_ResetAdmits ==
    (call.op = "limit" /\ call.had /\ call.now - call.pre.time >= TicksPerDay)
    => (call.result /\ call.post = [count |-> 1, time |-> call.now])

\* C3 witness: a subject over budget is admitted by the reset call.
C3_Witness ==
    /\ call.op = "limit"
    /\ call.had
    /\ call.pre.count > call.max
    /\ call.now - call.pre.time >= TicksPerDay
    /\ call.result

\* C5: a token issued at t0 for a subject the resolver knows verifies at
\* t0 + D for every 0 <= D < lifetime and returns that subject's identity,
\* and is refused for every D >= lifetime, whatever the server's time zone.
C5_RoundTrip ==
    (call.op = "verify" /\ call.token \in issued
        /\ get_user_details(call.token.user) # None)
    => /\ call.ok <=> call.now < call.token.exp
       /\ call.ok => call.user = get_user_details(call.token.user)

\* C6 as stated: get_current_user succeeds only for a serialized token
\* login issued; a token got by altering any part of an issued one is refused.
C6_OnlyIssuedAccepted ==
    (call.op = "verify" /\ call.ok) => call.token \in issued

\* C6, amended: get_current_user succeeds only for a token whose header,
\* claims and signature bytes are those of a token login issued with
\* SECRET_KEY and HS256.
C6_OnlyIssuedContentAccepted ==
    (call.op = "verify" /\ call.ok)
    => \E t \in issued : Decoded(call.token) = Decoded(t)

\* C6 witness: an issued token with a claim changed was presented while the
\* original was still good, and was refused.
C6_Witness ==
    /\ call.op = "verify"
    /\ ~call.ok
    /\ call.token \notin issued
    /\ \E t \in issued :
          /\ call.token = [t EXCEPT !.user = "bob@x"]
          /\ get_current_user(t, clock, tz).ok

\* C8: each cause of a failed verification is reported as its own kind:
\* InvalidToken for signature and structure, ExpiredToken for expiry,
\* UnknownSubject for a subject the resolver does not know.
KindOfSite(site) ==
    CASE site = "except JWTError" -> "InvalidToken"
      [] site = "email is None" -> "InvalidToken"
      [] site = "user is None" -> "UnknownSubject"
      [] site = "expiration" -> "ExpiredToken"
      [] OTHER -> "none"

C8_DistinctKinds ==
    \A f, g \in failures :
        KindOfSite(f.site) # KindOfSite(g.site) => f.raised # g.raised

\* C1: on every protected request the credential gate runs first: a request
\* whose x-api-key differs from the configured key never has its token
\* decoded, never reaches get_user_details, the rate limiter or the handler,
\* and whenever both ran the gate ran before the token was decoded.
Ran(req, step) == \E i \in DOMAIN req.trace : req.trace[i] = step
RanBefore(req, first, second) ==
    \A i, j \in DOMAIN req.trace :
        (req.trace[i] = first /\ req.trace[j] = second) => i < j

C1_GateFirst ==
    \A r \in ReqIds :
        /\ RanBefore(inflight[r], "verify_api_key", "jwt.decode")
        /\ (inflight[r].pc # "idle" /\ configured_key # <<inflight[r].x_api_key>>)
            => \A step \in {"jwt.decode", "get_user_details", "rate_limiter.limit",
                            "pipeline", "cursor.execute"} : ~Ran(inflight[r], step)

\* C4: however concurrent create_event requests of one subject interleave,
\* the requests admitted within one window never exceed max_requests.
C4_NoOverAdmission ==
    \A u \in Users : win[u].admitted <= CREATE_EVENT_MAX_REQUESTS

\* C4 witness: two authenticated requests of the same subject are both about
\* to call the limiter when one slot is left in the window.
C4_Witness ==
    /\ \A r \in ReqIds : inflight[r].pc = "handler" /\ inflight[r].user_id = 1
    /\ 1 \in DOMAIN requests
    /\ requests[1].count = CREATE_EVENT_MAX_REQUESTS - 1
    /\ ~WindowElapsed(clock, requests[1].time)

\* C7: a request the credential check refuses ends 401 "Invalid API Key";
\* one token verification refuses, for whatever cause, ends with the one 401
\* "Could not validate credentials" carrying the Bearer challenge; one the
\* rate limiter refuses ends 429 "Rate limit exceeded".
C7_ErrorMapping ==
    \A r \in ReqIds :
        LET req == inflight[r]
        IN  /\ req.rejected = "verify_api_key"
                => req.status = 401 /\ req.body = "Invalid API Key"
            /\ req.rejected = "get_current_user"
                => /\ req.status = 401
                   /\ req.body = "Could not validate credentials"
                   /\ req.headers = "WWW-Authenticate: Bearer"
            /\ req.rejected = "rate_limiter"
                => req.status = 429 /\ req.body = "Rate limit exceeded"
            /\ (req.pc = "done" /\ req.rejected = "") => req.status = 200

\* C7 witness: a request over budget was answered by the rate limiter.
C7_Witness ==
    /\ inflight["r1"].pc = "done"
    /\ inflight["r1"].rejected = "rate_limiter"
    /\ requests[1].count > CREATE_EVENT_MAX_REQUESTS

\* C9: on each of the four protected routes the handler's business logic
\* (the pipeline call or the storage access) runs only after the rate
\* limiter was asked.
C9_LimiterOnEveryRoute ==
    \A r \in ReqIds :
        (Ran(inflight[r], "pipeline") \/ Ran(inflight[r], "cursor.execute"))
        => Ran(inflight[r], "rate_limiter.limit")

\* C10: update_event with a non-empty field set changes no row but the one
\* with the given id owned by the caller; aimed at another owner's id or at
\* no row it leaves the table as it was and returns the not-owned message.
OwnedBy(table, id, user_id) == id \in DOMAIN table /\ table[id].user_id = user_id

C10_OwnershipScopedUpdate ==
    (call.op = "update_event" /\ call.event # << >>)
    => /\ DOMAIN call.after = DOMAIN call.before
       /\ \A rowid \in DOMAIN call.before :
            call.after[rowid] # call.before[rowid]
            => rowid = call.id /\ call.before[rowid].user_id = call.user_id
       /\ ~OwnedBy(call.before, call.id, call.user_id)
            => call.after = call.before /\ call.body = NotOwnedMessage
       /\ OwnedBy(call.before, call.id, call.user_id) => call.body = "null"

\* C10 witness: an update aimed at a row another user owns.
C10_Witness ==
    /\ call.op = "update_event"
    /\ call.event # << >>
    /\ call.id \in DOMAIN call.before
    /\ call.before[call.id].user_id # call.user_id
    /\ call.body = NotOwnedMessage

\* C11: update_event called with a field mapping that is empty after
\* normalization returns its no-op result (null, no error), builds and
\* executes no statement, and leaves every row as it was.
C11_NoOpUpdate ==
    (call.op = "update_event" /\ Len(call.event) = 0)
    => /\ call.executed = NoStatement
       /\ call.after = call.before
       /\ call.body = "null"

\* C11 witness: an empty field mapping aimed at a row the caller owns.
C11_Witness ==
    /\ call.op = "update_event"
    /\ Len(call.event) = 0
    /\ OwnedBy(call.before, call.id, call.user_id)

\* C12: for a mapping of k >= 1 fields the statement's SET clause names
\* exactly those k columns in the mapping's order, and the parameter list
\* has k + 2 entries: the k values as stored (datetimes formatted) in the
\* order of the SET clause, then the event id, then the owner's id.
StoredValue(item) == IF IsDatetimeField(item[1]) THEN <<item[2].date, item[2].time>>
                     ELSE item[2]

C12_StatementShape ==
    (call.op = "update_event" /\ Len(call.event) >= 1)
    => LET k == Len(call.event)
           set_clause == call.executed.set_clause
           values == call.executed.values
       IN  /\ Len(set_clause) = k
           /\ \A i \in 1..k : set_clause[i] = call.event[i][1]
           /\ Len(values) = k + 2
           /\ \A i \in 1..k : values[i] = StoredValue(call.event[i])
           /\ values[k + 1] = call.id
           /\ values[k + 2] = call.user_id

\* C12 witness: one field, event id 7: the parameters end with (7, owner).
C12_Witness ==
    /\ call.op = "update_event"
    /\ Len(call.event) = 1
    /\ call.id = 7
    /\ call.executed.values = <<call.event[1][2], 7, call.user_id>>

\* C13: login returns a token only when the x-api-key is the configured key
\* and validate_credentials holds for the pair; the token carries the login
\* email as its subject and expires 24 hours after the call; every other
\* login ends in a 401 and returns no token.
C13_LoginIssues ==
    call.op = "login"
    => IF configured_key = <<call.key>>
            /\ validate_credentials(call.email, call.password)
       THEN /\ Len(call.token) = 1
            /\ call.token[1].user = call.email
            /\ call.token[1].exp = call.now + TicksPerDay
            /\ call.raised = NoException
       ELSE /\ call.token = << >>
            /\ call.raised.status = 401

\* C13 witness: a login some time after start returned a token.
C13_Witness ==
    /\ call.op = "login"
    /\ call.now > 0
    /\ Len(call.token) = 1
    /\ call.token[1] \in issued

\* C14: the credential gate lets a request pass exactly when the presented
\* x-api-key equals the configured key; every other string, and every string
\* when no key is configured, is refused with the one 401 "Invalid API Key"
\* whose content does not depend on what was presented; the gate's step
\* changes nothing but the request it answers.
GateStep(r) ==
    inflight[r].pc = "verify_api_key" /\ inflight'[r].pc # "verify_api_key"

C14_GateExactMatch ==
    /\ [](\A r \in ReqIds :
            LET req == inflight[r]
            IN  Ran(req, "verify_api_key")
                => /\ req.rejected = "verify_api_key"
                        <=> configured_key # <<req.x_api_key>>
                   /\ req.rejected = "verify_api_key"
                        => /\ req.status = 401
                           /\ req.body = "Invalid API Key"
                           /\ req.headers = "")
    /\ [][\A r \in ReqIds :
            GateStep(r)
            => /\ UNCHANGED <<clock, tz, requests, max_requests, issued, db,
                              configured_key>>
               /\ \A o \in ReqIds \ {r} : inflight'[o] = inflight[o]]_vars

\* C14 witness: with no key configured, the key of .env was presented with
\* a good token and refused.
C14_Witness ==
    /\ configured_key = << >>
    /\ inflight["r1"].x_api_key = API_KEY
    /\ inflight["r1"].rejected = "verify_api_key"
    /\ inflight["r1"].user_id # None

\* C15 as stated: a call for a subject without a record creates the record
\* {count: 1, window_start: now} and returns True for every max_requests,
\* max_requests = 0 included.
C15_FirstCallAdmitted ==
    (call.op = "limit" /\ ~call.had)
    => /\ call.post = [count |-> 1, time |-> call.now]
       /\ call.result

\* C15, amended: a call for a subject without a record creates the record
\* {count: 1, window_start: now}; it returns True when max_requests >= 1
\* and False when max_requests = 0.
C15_FirstCallCounted ==
    (call.op = "limit" /\ ~call.had)
    => /\ call.post = [count |-> 1, time |-> call.now]
       /\ call.result <=> call.max >= 1

\* C15 witness: the first call of a subject under max_requests = 0 created
\* the record and was refused.
C15_Witness ==
    /\ call.op = "limit"
    /\ ~call.had
    /\ call.max = 0
    /\ ~call.result
    /\ requests[call.user] = [count |-> 1, time |-> call.now]

\* C16: a refused call still adds exactly one to the subject's count and
\* leaves the window start alone; every call inside a window adds one to the
\* count, and the window start stays the time of the subject's first call
\* of that window.
C16_RejectionsCount ==
    call.op = "limit"
    => /\ ~call.result
            => /\ call.post.count = call.pre.count + 1
               /\ call.post.time = call.pre.time
       /\ (call.had /\ call.now - call.pre.time < TicksPerDay)
            => /\ call.post.count = call.pre.count + 1
               /\ call.post.time = call.pre.time
       /\ call.post.time = win[call.user].start

\* C16 witness: a subject already over budget was refused again, later in
\* the same window.
C16_Witness ==
    /\ call.op = "limit"
    /\ call.had
    /\ call.max >= 1
    /\ call.pre.count > call.max
    /\ call.now > call.pre.time
    /\ ~call.result

\* C17: a call limit(S1, N) leaves the record of every other subject as it
\* was (none created, none removed, none changed), and its result and the
\* record it leaves for S1 are those of the same call made with S1's record
\* alone in the limiter.
OwnRecord(reqs, user_id) == [u \in (DOMAIN reqs) \cap {user_id} |-> reqs[u]]

C17_SubjectsIndependent ==
    [][requests' # requests
        => LET S1 == call'.user
               alone == limit(OwnRecord(requests, S1), S1, max_requests, clock)
           IN  /\ call'.op = "limit"
               /\ \A S2 \in Users \ {S1} :
                    /\ S2 \in DOMAIN requests' <=> S2 \in DOMAIN requests
                    /\ S2 \in DOMAIN requests => requests'[S2] = requests[S2]
               /\ call'.result = alone.result
               /\ requests'[S1] = alone.requests[S1]]_vars

\* C17 witness: a subject was admitted while another subject's record is
\* over budget.
C17_Witness ==
    /\ call.op = "limit"
    /\ call.result
    /\ \E S2 \in Users \ {call.user} :
          S2 \in DOMAIN requests /\ requests[S2].count > call.max

\* C18: a create_event request refused by the credential gate or by token
\* verification never reaches the rate limiter, and the limiter's records
\* change only in the handler step of a create_event request that presented
\* the configured key and a token with the content of an issued one, and
\* then only the record of that token's subject.
Authenticated(req, user_id) ==
    /\ configured_key = <<req.x_api_key>>
    /\ \E t \in issued :
          /\ Decoded(t) = Decoded(req.token)
          /\ get_user_details(t.user) = user_id
    /\ user_id # None

C18_RefusedLeaveLimiter ==
    /\ [](\A r \in ReqIds :
            inflight[r].rejected \in {"verify_api_key", "get_current_user"}
            => ~Ran(inflight[r], "rate_limiter.limit"))
    /\ [][requests' # requests
            => \E r \in ReqIds, S \in Users :
                  /\ inflight[r].op = "create_event"
                  /\ inflight[r].pc = "handler"
                  /\ inflight'[r].pc = "done"
                  /\ Authenticated(inflight[r], S)
                  /\ \A S2 \in Users \ {S} :
                        /\ S2 \in DOMAIN requests' <=> S2 \in DOMAIN requests
                        /\ S2 \in DOMAIN requests => requests'[S2] = requests[S2]]_vars

\* C18 witness: a create_event request with a good token and a wrong key was
\* refused by the gate while its subject has a record in the limiter.
C18_Witness ==
    /\ inflight["r1"].op = "create_event"
    /\ inflight["r1"].rejected = "verify_api_key"
    /\ inflight["r1"].user_id \in DOMAIN requests
    /\ configured_key = <<API_KEY>>

\* C19: get_events returns only stored rows owned by the caller;
\* delete_event(id) removes no row but the one with that id owned by the
\* caller and changes no row it keeps; aimed at another user's id or at no
\* row it leaves the table as it was.
C19_OwnershipScopedListDelete ==
    /\ call.op = "get_events"
        => \A row \in call.rows :
              /\ row[1] \in DOMAIN call.before
              /\ row[2] = call.before[row[1]]
              /\ row[2].user_id = call.user_id
    /\ call.op = "delete_event"
        => /\ DOMAIN call.after \subseteq DOMAIN call.before
           /\ \A rowid \in DOMAIN call.after : call.after[rowid] = call.before[rowid]
           /\ \A rowid \in (DOMAIN call.before) \ (DOMAIN call.after) :
                 rowid = call.id /\ call.before[rowid].user_id = call.user_id
           /\ ~OwnedBy(call.before, call.id, call.user_id)
                 => call.after = call.before

\* C19 witness: a delete aimed at a row another user owns, in a table where
\* the caller owns a row too.
C19_Witness ==
    /\ call.op = "delete_event"
    /\ call.id \in DOMAIN call.before
    /\ call.before[call.id].user_id # call.user_id
    /\ \E rowid \in DOMAIN call.before : call.before[rowid].user_id = call.user_id

====
